---- MODULE Spec2Model ----
(***************************************************************************)
(* The PositionMonitor of src/src/services/pump-portal.ts (lines 155-314)  *)
(* as a state machine on the single-threaded event loop.  One action is    *)
(* one run of a handler from the point where it is resumed to its next     *)
(* await (or to its return).  Position objects live in a heap (objs):      *)
(* addPosition allocates a NEW object and overwrites the map entry, while  *)
(* suspended invocations keep the reference they read earlier.             *)
(*                                                                         *)
(* Prices are integer multiples of a price tick; for the values drawn here *)
(* the IEEE-754 evaluation of ((cur - entry) / entry) * 100 is exact.      *)
(* tokenSymbol and amountSol are written once and never read by the        *)
(* monitor's control flow; they are left out of the object record.         *)
(*                                                                         *)
(* Spec drives the monitor through its public methods; SurfaceSpec drives  *)
(* it through the bot's buy-button handler (src/unnamed/part_001); BotSpec *)
(* runs the bot's chat handlers under every configuration.                 *)
(* PriceSpec, ValidatorSpec, AdapterSpec and TradeSpec each follow one     *)
(* evaluation of getCurrentPrice, TokenValidator.validateToken,            *)
(* AIAnalysisService.analyzeToken and buyToken / sellToken over every      *)
(* answer of their upstreams.                                              *)
(***************************************************************************)
EXTENDS Integers, Sequences, FiniteSets, TLC

VARIABLES
    objs,                 \* heap of Position objects, in allocation order
    timers,               \* timers[k]: is the k-th setInterval handle still scheduled
    positions,            \* Map<string, Position>: mint -> heap index, 0 = no entry
    monitoringIntervals,  \* Map<string, Timeout>: mint -> timer index, 0 = no entry
    tasks,                \* suspended async invocations (checkPosition / manualExit / buy)
    now,                  \* Date.now()
    requested,            \* requested[k]: was sellToken ever requested for object k
    ev,                   \* what the last step did (observation only)
    call,                 \* the evaluation in progress of a validator / adapter /
                          \* price-feed / trade function: inputs, position, result
    config                \* the settings read from the environment at start-up

monitorVars == <<objs, timers, positions, monitoringIntervals, tasks, now, requested, ev>>
vars == <<objs, timers, positions, monitoringIntervals, tasks, now, requested, ev, call,
          config>>

----------------------------------------------------------------------------
\* Bounds of the model.
MaxPositions == 2
MaxTasks == 2
MaxTicks == 1

\* Configuration defaults.
takeProfitPercent == 20
stopLossPercent == -10
maxHoldTime == 300000

\* MAX_POSITION_SIZE default '2.0', in tenths of a SOL.
maxPositionSize == 20

\* AUTHORIZED_USERS, split at ',' (one configured id; the default is the empty list).
authorizedUsers == {"1001"}

\* The configuration the monitor, the surface and the services are run with.
Configured == [authorizedUsers |-> authorizedUsers, maxPositionSize |-> maxPositionSize]

Mints == {"mintA", "mintB"}
EntryPrices == {0, 100}
Prices == {0, 85, 100, 125}
TickMs == maxHoldTime

\* What one HTTP price request can yield.
\* "throw": the request rejects; "malformed": a body without the expected container;
\* "nodata": a well-formed body without an entry for the mint; "ok": a price.
FeedOutcomes ==
    {[st |-> "throw", price |-> 0], [st |-> "malformed", price |-> 0],
     [st |-> "nodata", price |-> 0]}
        \cup {[st |-> "ok", price |-> p] : p \in Prices}


\* The observation of a step: the operation, its mint, the caller kind, the Position
\* object it worked on, the price it was resumed with, whether exitPosition was
\* called and with which reason, the object a sellToken request was issued for
\* (sold, 0 = none) with its percentage, and what it returned or threw (res, sig).
NoEv == [op |-> "init", mint |-> "", kind |-> "", pos |-> 0, price |-> 0,
         exit |-> FALSE, reason |-> "", sold |-> 0, pct |-> 0, res |-> "", sig |-> 0,
         user |-> 0, amount |-> 0]

\* No function evaluation is being followed.
NoCall == [fn |-> "none"]

Remove(s, i) == [j \in 1..(Len(s) - 1) |-> IF j < i THEN s[j] ELSE s[j + 1]]

----------------------------------------------------------------------------
\* Variant: any recorded position counts.
hasActivePositionAny(tokenMint) == positions[tokenMint] # 0

\* hasActivePosition: position?.active || false
hasActivePosition(tokenMint) ==
    positions[tokenMint] # 0 /\ objs[positions[tokenMint]].active

\* The catch of the primary request is entered when axios rejects or when
\* response.data.data is undefined (a TypeError inside the try).
primaryThrows(primary) == primary.st \in {"throw", "malformed"}

\* return response.data.data[tokenMint]?.price || 0
primaryPrice(primary) == IF primary.st = "ok" THEN primary.price ELSE 0

\* if (response.data && response.data.length > 0) return parseFloat(priceUsd || '0');
\* every other outcome, a rejection included, falls through to `return 0`.
fallbackPrice(fallback) == IF fallback.st = "ok" THEN fallback.price ELSE 0

\* getCurrentPrice: primary feed, fallback feed only in the catch branch.
getCurrentPrice(primary, fallback) ==
    IF primaryThrows(primary) THEN fallbackPrice(fallback) ELSE primaryPrice(primary)

\* Variant: the zero/NaN guard is missing.
priceUnavailableNever(currentPrice) == FALSE

\* if (!currentPrice || currentPrice === 0) return;
priceUnavailable(currentPrice) == currentPrice = 0

\* ((currentPrice - entryPrice) / entryPrice) * 100; a positive price over a
\* zero entry price is IEEE +Infinity (a zero price returns before this line).
profitPercent(currentPrice, entryPrice) ==
    IF entryPrice = 0
    THEN [inf |-> TRUE, val |-> 0]
    ELSE [inf |-> FALSE, val |-> ((currentPrice - entryPrice) * 100) \div entryPrice]

GE(p, threshold) == p.inf \/ p.val >= threshold
LE(p, threshold) == ~p.inf /\ p.val <= threshold

\* Variant: the max-hold disjunct is missing.
shouldExitNoTime(pp, timeHeld) ==
    GE(pp, takeProfitPercent) \/ LE(pp, stopLossPercent)

shouldExit(pp, timeHeld) ==
    \/ GE(pp, takeProfitPercent)
    \/ LE(pp, stopLossPercent)
    \/ timeHeld >= maxHoldTime

\* Variant: the hold time is tested first.
exitReasonTimeFirst(pp, timeHeld) ==
    IF timeHeld >= maxHoldTime THEN "maxHold"
    ELSE IF GE(pp, takeProfitPercent) THEN "takeProfit"
    ELSE "stopLoss"

exitReason(pp, timeHeld) ==
    IF GE(pp, takeProfitPercent) THEN "takeProfit"
    ELSE IF LE(pp, stopLossPercent) THEN "stopLoss"
    ELSE "maxHold"

\* Every value getCurrentPrice can resolve to.
PriceResults == {getCurrentPrice(p, f) : p \in FeedOutcomes, f \in FeedOutcomes}

markRequested(k) == [requested EXCEPT ![k] = TRUE]

----------------------------------------------------------------------------
\* The PositionMonitor after construction.
InitMonitor ==
    /\ objs = <<>>
    /\ timers = <<>>
    /\ positions = [m \in Mints |-> 0]
    /\ monitoringIntervals = [m \in Mints |-> 0]
    /\ tasks = <<>>
    /\ now = 0
    /\ requested = <<>>
    /\ ev = NoEv

Init ==
    /\ InitMonitor
    /\ call = NoCall
    /\ config = Configured

\* The body of addPosition: a new active Position object is stored under the mint
\* (replacing whatever was there), then startMonitoring creates a timer and stores
\* its handle under the mint (replacing, not clearing, whatever was there).
addPositionBody(tokenMint, entryPrice) ==
    /\ Len(objs) < MaxPositions
    /\ objs' = Append(objs, [tokenMint |-> tokenMint, entryPrice |-> entryPrice,
                             entryTime |-> now, active |-> TRUE])
    /\ positions' = [positions EXCEPT ![tokenMint] = Len(objs) + 1]
    /\ timers' = Append(timers, TRUE)
    /\ monitoringIntervals' = [monitoringIntervals EXCEPT ![tokenMint] = Len(objs) + 1]
    /\ requested' = Append(requested, FALSE)

\* addPosition + startMonitoring, called directly.
addPosition(tokenMint, entryPrice) ==
    /\ addPositionBody(tokenMint, entryPrice)
    /\ ev' = [NoEv EXCEPT !.op = "addPosition", !.mint = tokenMint, !.pos = Len(objs) + 1]
    /\ UNCHANGED <<tasks, now, call, config>>

\* The setInterval callback of startMonitoring: checkPosition up to its first await.
intervalFire(k) ==
    /\ k \in 1..Len(timers)
    /\ timers[k]
    /\ LET tokenMint == objs[k].tokenMint IN
       IF ~hasActivePosition(tokenMint)
       THEN /\ ev' = [NoEv EXCEPT !.op = "pollSkip", !.mint = tokenMint]
            /\ UNCHANGED tasks
       ELSE /\ Len(tasks) < MaxTasks
            /\ tasks' = Append(tasks, [kind |-> "check", mint |-> tokenMint,
                                       pos |-> positions[tokenMint], pc |-> "price",
                                       reason |-> "", user |-> 0, amount |-> 0])
            /\ ev' = [NoEv EXCEPT !.op = "pollStart", !.mint = tokenMint,
                                  !.pos = positions[tokenMint]]
    /\ UNCHANGED <<objs, timers, positions, monitoringIntervals, now, requested, call, config>>

\* exitPosition past its guard: this.pumpPortal.sellToken(tokenMint, 100)
sellPercentage == 100

\* checkPosition resumed from `await this.getCurrentPrice(tokenMint)`, run to its
\* return or to the await of sellToken inside exitPosition.
checkPositionResume(i, currentPrice) ==
    /\ i \in 1..Len(tasks)
    /\ tasks[i].pc = "price"
    /\ LET t == tasks[i]
           position == objs[t.pos]
           pp == profitPercent(currentPrice, position.entryPrice)
           timeHeld == now - position.entryTime
           exit == ~priceUnavailable(currentPrice) /\ shouldExit(pp, timeHeld)
           reason == IF exit THEN exitReason(pp, timeHeld) ELSE ""
           sell == exit /\ hasActivePosition(t.mint)
       IN /\ tasks' = IF sell
                      THEN [tasks EXCEPT ![i] = [t EXCEPT !.pc = "sell", !.reason = reason,
                                                          !.pos = positions[t.mint]]]
                      ELSE Remove(tasks, i)
          /\ requested' = IF sell THEN markRequested(positions[t.mint]) ELSE requested
          /\ ev' = [NoEv EXCEPT !.op = "check", !.mint = t.mint, !.kind = "check",
                                !.pos = t.pos, !.price = currentPrice, !.exit = exit,
                                !.reason = reason,
                                !.sold = IF sell THEN positions[t.mint] ELSE 0,
                                !.pct = IF sell THEN sellPercentage ELSE 0]
    /\ UNCHANGED <<objs, timers, positions, monitoringIntervals, now, call, config>>

\* Variant: active is cleared before the sell and restored when it fails.
objsAfterSellTokenRollback(k, ok) == [objs EXCEPT ![k].active = ~ok]

\* Variant: active is cleared before the sell is awaited.
objsAfterSellTokenEager(k, ok) == [objs EXCEPT ![k].active = FALSE]

\* position.active = false is executed after the awaited sellToken resolved, and is
\* skipped when it rejected.
objsAfterSellToken(k, ok) ==
    IF ok THEN [objs EXCEPT ![k].active = FALSE] ELSE objs

\* Variant: clearInterval is missing.
timersAfterExitKeep(tokenMint) == timers

\* Variant: every timer is cleared.
timersAfterExitAll(tokenMint) == [k \in 1..Len(timers) |-> FALSE]

\* const interval = get(tokenMint); if (interval) { clearInterval(interval); ... }
timersAfterExit(tokenMint) ==
    IF monitoringIntervals[tokenMint] # 0
    THEN [timers EXCEPT ![monitoringIntervals[tokenMint]] = FALSE]
    ELSE timers

\* Variant: the delete is missing.
intervalsAfterExitKeep(tokenMint) == monitoringIntervals

\* ... this.monitoringIntervals.delete(tokenMint)
intervalsAfterExit(tokenMint) == [monitoringIntervals EXCEPT ![tokenMint] = 0]

\* Variant: manualExit wraps exitPosition in a catch that only logs.
sellFailureSwallowed(kind) == "swallowed: Failed to sell token"

\* What the caller of exitPosition does with the rejection of sellToken: the catch
\* of checkPosition logs it, manualExit lets it propagate.
sellFailure(kind) ==
    IF kind = "manual" THEN "thrown: Failed to sell token"
    ELSE "swallowed: Failed to sell token"

\* exitPosition resumed from `await this.pumpPortal.sellToken(tokenMint, 100)`.
exitPositionSellDone(i, ok) ==
    /\ i \in 1..Len(tasks)
    /\ tasks[i].pc = "sell"
    /\ LET t == tasks[i] IN
       /\ objs' = objsAfterSellToken(t.pos, ok)
       /\ IF ok
          THEN /\ timers' = timersAfterExit(t.mint)
               /\ monitoringIntervals' = intervalsAfterExit(t.mint)
               /\ tasks' = [tasks EXCEPT ![i] = [t EXCEPT !.pc = "final"]]
               /\ ev' = [NoEv EXCEPT !.op = "sellOk", !.mint = t.mint, !.kind = t.kind,
                                     !.pos = t.pos, !.reason = t.reason, !.sig = t.pos]
          ELSE /\ tasks' = Remove(tasks, i)
               /\ ev' = [NoEv EXCEPT !.op = "sellFail", !.mint = t.mint, !.kind = t.kind,
                                     !.pos = t.pos, !.reason = t.reason,
                                     !.res = sellFailure(t.kind)]
               /\ UNCHANGED <<timers, monitoringIntervals>>
    /\ UNCHANGED <<positions, now, requested, call, config>>

\* The record exitPosition returns: {reason, signature, finalPrice}; the signature of
\* the confirmed sell is identified with the object it sold.
exitResult(t) == [reason |-> t.reason, sig |-> t.pos]

\* exitPosition resumed from `finalPrice: await this.getCurrentPrice(tokenMint)`:
\* it returns its record; manualExit returns result.signature.  The final price is
\* read by no caller.
exitPositionReturn(i) ==
    /\ i \in 1..Len(tasks)
    /\ tasks[i].pc = "final"
    /\ LET t == tasks[i] IN
       /\ tasks' = Remove(tasks, i)
       /\ ev' = [NoEv EXCEPT !.op = "exitReturn", !.mint = t.mint, !.kind = t.kind,
                             !.pos = t.pos, !.reason = exitResult(t).reason,
                             !.sig = exitResult(t).sig]
    /\ UNCHANGED <<objs, timers, positions, monitoringIntervals, now, requested, call, config>>

\* Variant: only a missing record is rejected.
manualExitRejectsMissingOnly(tokenMint) == positions[tokenMint] = 0

\* if (!position || !position.active) throw new Error('No active position for this token')
manualExitRejects(tokenMint) ==
    positions[tokenMint] = 0 \/ ~objs[positions[tokenMint]].active

\* manualExit up to its throw, or to the await of sellToken inside exitPosition.
manualExit(tokenMint) ==
    /\ IF manualExitRejects(tokenMint)
       THEN /\ ev' = [NoEv EXCEPT !.op = "manualReject", !.mint = tokenMint,
                                  !.kind = "manual",
                                  !.res = "thrown: No active position for this token"]
            /\ UNCHANGED <<tasks, requested>>
       ELSE IF ~hasActivePosition(tokenMint)
       THEN \* exitPosition returned undefined: manualExit returns ''
            /\ ev' = [NoEv EXCEPT !.op = "manualReturn", !.mint = tokenMint,
                                  !.kind = "manual"]
            /\ UNCHANGED <<tasks, requested>>
       ELSE /\ Len(tasks) < MaxTasks
            /\ tasks' = Append(tasks, [kind |-> "manual", mint |-> tokenMint,
                                       pos |-> positions[tokenMint], pc |-> "sell",
                                       reason |-> "manual", user |-> 0, amount |-> 0])
            /\ requested' = markRequested(positions[tokenMint])
            /\ ev' = [NoEv EXCEPT !.op = "manualExit", !.mint = tokenMint,
                                  !.kind = "manual", !.pos = positions[tokenMint],
                                  !.exit = TRUE, !.reason = "manual",
                                  !.sold = positions[tokenMint],
                                  !.pct = sellPercentage]
    /\ UNCHANGED <<objs, timers, positions, monitoringIntervals, now, call, config>>

\* Variant: stopAll also closes every position.
stopAllClosing ==
    /\ timers' = [k \in 1..Len(timers) |->
                    IF \E m \in Mints : monitoringIntervals[m] = k THEN FALSE ELSE timers[k]]
    /\ monitoringIntervals' = [m \in Mints |-> 0]
    /\ objs' = [k \in 1..Len(objs) |-> [objs[k] EXCEPT !.active = FALSE]]
    /\ ev' = [NoEv EXCEPT !.op = "stopAll"]
    /\ UNCHANGED <<positions, tasks, now, requested, call, config>>

\* stopAll: clearInterval on every value of monitoringIntervals, then clear().
stopAll ==
    /\ timers' = [k \in 1..Len(timers) |->
                    IF \E m \in Mints : monitoringIntervals[m] = k THEN FALSE ELSE timers[k]]
    /\ monitoringIntervals' = [m \in Mints |-> 0]
    /\ ev' = [NoEv EXCEPT !.op = "stopAll"]
    /\ UNCHANGED <<objs, positions, tasks, now, requested, call, config>>

\* Date.now() advances.
Tick ==
    /\ now < MaxTicks * TickMs
    /\ now' = now + TickMs
    /\ ev' = [NoEv EXCEPT !.op = "tick"]
    /\ UNCHANGED <<objs, timers, positions, monitoringIntervals, tasks, requested, call, config>>

Next ==
    \/ \E m \in Mints, e \in EntryPrices : addPosition(m, e)
    \/ \E k \in 1..MaxPositions : intervalFire(k)
    \/ \E i \in 1..MaxTasks, price \in PriceResults : checkPositionResume(i, price)
    \/ \E i \in 1..MaxTasks, ok \in BOOLEAN : exitPositionSellDone(i, ok)
    \/ \E i \in 1..MaxTasks : exitPositionReturn(i)
    \/ \E m \in Mints : manualExit(m)
    \/ stopAll
    \/ Tick

Spec == Init /\ [][Next]_vars

\* The fairness of the event loop: an interval timer that stays scheduled keeps
\* firing, and every suspended invocation is eventually resumed.
Fairness ==
    /\ \A k \in 1..MaxPositions : SF_vars(intervalFire(k))
    /\ \A i \in 1..MaxTasks : WF_vars(\E price \in PriceResults : checkPositionResume(i, price))
    /\ \A i \in 1..MaxTasks : WF_vars(\E ok \in BOOLEAN : exitPositionSellDone(i, ok))
    /\ \A i \in 1..MaxTasks : WF_vars(exitPositionReturn(i))

FairSpec == Spec /\ Fairness

----------------------------------------------------------------------------
\* The buy-button handler of the bot (callback_query), wired to the one
\* PositionMonitor of the process.  An invocation suspended in the handler is a task
\* of kind "buy"; its pc names the await it is suspended in.

\* query.from.id / msg.from.id of the users that talk to the bot.
UserIds == {1001, 2002}

\* The third field of callback_data 'buy:<mint>:<amount>' (the buttons offer 0.1,
\* 0.5, 1 and custom).
AmountStrs == {"0.1", "1", "custom"}

\* parseFloat of an amount field, in tenths of a SOL.
parseFloat(amountStr) ==
    CASE amountStr = "0.1" -> 1
      [] amountStr = "1" -> 10

\* Variant: everyone is let in.
isAuthorizedAll(userId) == TRUE

\* isAuthorized: an empty list allows everyone, else userId.toString() must be listed.
isAuthorized(userId) ==
    config.authorizedUsers = {} \/ ToString(userId) \in config.authorizedUsers

\* if (positionMonitor.hasActivePosition(tokenMint)) { ...; return; }
alreadyHeld(tokenMint) == hasActivePosition(tokenMint)

\* The buy invocations in flight.
buyTasks == {i \in 1..Len(tasks) : tasks[i].kind = "buy"}

\* callback_query with data 'buy:<tokenMint>:<amountStr>', run to its first return
\* or to `await bot.sendMessage(chatId, 'Buying ...')`.
callbackQuery(userId, tokenMint, amountStr) ==
    /\ IF ~isAuthorized(userId)
       THEN /\ ev' = [NoEv EXCEPT !.op = "unauthorized", !.mint = tokenMint, !.kind = "buy",
                                  !.user = userId, !.res = "Unauthorized"]
            /\ UNCHANGED tasks
       ELSE IF amountStr = "custom"
       THEN /\ ev' = [NoEv EXCEPT !.op = "customAmount", !.mint = tokenMint, !.kind = "buy",
                                  !.user = userId]
            /\ UNCHANGED tasks
       ELSE IF alreadyHeld(tokenMint)
       THEN /\ ev' = [NoEv EXCEPT !.op = "alreadyHeld", !.mint = tokenMint, !.kind = "buy",
                                  !.user = userId, !.pos = positions[tokenMint]]
            /\ UNCHANGED tasks
       ELSE /\ Len(tasks) < MaxTasks
            /\ Len(objs) + Cardinality(buyTasks) < MaxPositions
            /\ tasks' = Append(tasks, [kind |-> "buy", mint |-> tokenMint, pos |-> 0,
                                       pc |-> "send", reason |-> "", user |-> userId,
                                       amount |-> parseFloat(amountStr)])
            /\ ev' = [NoEv EXCEPT !.op = "buyAccepted", !.mint = tokenMint, !.kind = "buy",
                                  !.user = userId, !.res = amountStr]
    /\ UNCHANGED <<objs, timers, positions, monitoringIntervals, now, requested, call, config>>

\* The handler resumed from the await of sendMessage: on success it calls
\* pumpPortal.buyToken(tokenMint, amount) and awaits it; a rejection goes to the catch.
buySendDone(i, ok) ==
    /\ i \in 1..Len(tasks)
    /\ tasks[i].kind = "buy" /\ tasks[i].pc = "send"
    /\ LET t == tasks[i] IN
       IF ok
       THEN /\ tasks' = [tasks EXCEPT ![i] = [t EXCEPT !.pc = "buy"]]
            /\ ev' = [NoEv EXCEPT !.op = "buyToken", !.mint = t.mint, !.kind = "buy",
                                  !.user = t.user, !.amount = t.amount]
       ELSE /\ tasks' = Remove(tasks, i)
            /\ ev' = [NoEv EXCEPT !.op = "buyFailed", !.mint = t.mint, !.kind = "buy",
                                  !.user = t.user, !.res = "Buy failed"]
    /\ UNCHANGED <<objs, timers, positions, monitoringIntervals, now, requested, call, config>>

\* Variant: the handler goes on whether or not buyToken succeeded.
buyTokenDoneUnchecked(i, ok) ==
    /\ i \in 1..Len(tasks)
    /\ tasks[i].kind = "buy" /\ tasks[i].pc = "buy"
    /\ tasks' = [tasks EXCEPT ![i] = [tasks[i] EXCEPT !.pc = "metadata",
                                       !.reason = IF ok THEN "signature" ELSE ""]]
    /\ ev' = [NoEv EXCEPT !.op = IF ok THEN "bought" ELSE "buyFailed", !.mint = tasks[i].mint,
                          !.kind = "buy", !.user = tasks[i].user]
    /\ UNCHANGED <<objs, timers, positions, monitoringIntervals, now, requested, call, config>>

\* The handler resumed from `await pumpPortal.buyToken(...)`: on success it holds the
\* signature, calls validator.getTokenMetadata and awaits it; a rejection goes to
\* the catch.
buyTokenDone(i, ok) ==
    /\ i \in 1..Len(tasks)
    /\ tasks[i].kind = "buy" /\ tasks[i].pc = "buy"
    /\ LET t == tasks[i] IN
       IF ok
       THEN /\ tasks' = [tasks EXCEPT ![i] = [t EXCEPT !.pc = "metadata",
                                                       !.reason = "signature"]]
            /\ ev' = [NoEv EXCEPT !.op = "bought", !.mint = t.mint, !.kind = "buy",
                                  !.user = t.user]
       ELSE /\ tasks' = Remove(tasks, i)
            /\ ev' = [NoEv EXCEPT !.op = "buyFailed", !.mint = t.mint, !.kind = "buy",
                                  !.user = t.user, !.res = "Buy failed"]
    /\ UNCHANGED <<objs, timers, positions, monitoringIntervals, now, requested, call, config>>

\* The handler resumed from `await validator.getTokenMetadata(...)` (which catches its
\* own errors): it calls validator.getMarketData and awaits it.
buyMetadataDone(i) ==
    /\ i \in 1..Len(tasks)
    /\ tasks[i].kind = "buy" /\ tasks[i].pc = "metadata"
    /\ tasks' = [tasks EXCEPT ![i] = [tasks[i] EXCEPT !.pc = "market"]]
    /\ ev' = [NoEv EXCEPT !.op = "metadata", !.mint = tasks[i].mint, !.kind = "buy",
                          !.user = tasks[i].user]
    /\ UNCHANGED <<objs, timers, positions, monitoringIntervals, now, requested, call, config>>

\* The handler resumed from `await validator.getMarketData(...)` (which catches its own
\* errors and then yields price 0): positionMonitor.addPosition(tokenMint, symbol,
\* marketData.price, amount) runs to completion and the handler reports success.
buyMarketDataDone(i, price) ==
    /\ i \in 1..Len(tasks)
    /\ tasks[i].kind = "buy" /\ tasks[i].pc = "market"
    /\ addPositionBody(tasks[i].mint, price)
    /\ tasks' = Remove(tasks, i)
    /\ ev' = [NoEv EXCEPT !.op = "buyAdd", !.mint = tasks[i].mint, !.kind = "buy",
                          !.user = tasks[i].user, !.pos = Len(objs) + 1, !.price = price,
                          !.amount = tasks[i].amount, !.res = tasks[i].reason]
    /\ UNCHANGED <<now, call, config>>

\* The process while it runs: button presses and the monitor's timers and exits.
\* addPosition is reached through the buy handler only and manualExit has no caller;
\* SIGINT / SIGTERM call stopAll and end the process.  The clock stands still here:
\* exits are price-triggered (the time-triggered ones are followed in Spec).
SurfaceNext ==
    \/ \E u \in UserIds, m \in Mints, a \in AmountStrs : callbackQuery(u, m, a)
    \/ \E i \in 1..MaxTasks, ok \in BOOLEAN : buySendDone(i, ok)
    \/ \E i \in 1..MaxTasks, ok \in BOOLEAN : buyTokenDone(i, ok)
    \/ \E i \in 1..MaxTasks : buyMetadataDone(i)
    \/ \E i \in 1..MaxTasks, e \in EntryPrices : buyMarketDataDone(i, e)
    \/ \E k \in 1..MaxPositions : intervalFire(k)
    \/ \E i \in 1..MaxTasks, price \in PriceResults : checkPositionResume(i, price)
    \/ \E i \in 1..MaxTasks, ok \in BOOLEAN : exitPositionSellDone(i, ok)
    \/ \E i \in 1..MaxTasks : exitPositionReturn(i)

SurfaceSpec == Init /\ [][SurfaceNext]_vars

----------------------------------------------------------------------------
\* The chat handlers of the bot under every configuration: commands, free-text
\* messages and the buy buttons.  The monitor's timers are left to SurfaceSpec.

\* What the environment can configure (position sizes in tenths of a SOL).
Configs ==
    [authorizedUsers : {{}, {"1001"}}, maxPositionSize : {5, maxPositionSize}]

InitBot ==
    /\ InitMonitor
    /\ call = NoCall
    /\ config \in Configs

\* /start and /help: answered for every sender.
infoCommand(userId) ==
    /\ ev' = [NoEv EXCEPT !.op = "info", !.kind = "command", !.user = userId]
    /\ UNCHANGED <<objs, timers, positions, monitoringIntervals, tasks, now, requested, call,
                   config>>

\* /wallet: the wallet address, for authorized senders.
walletCommand(userId) ==
    /\ ev' = IF isAuthorized(userId)
             THEN [NoEv EXCEPT !.op = "wallet", !.kind = "command", !.user = userId]
             ELSE [NoEv EXCEPT !.op = "unauthorized", !.kind = "command", !.user = userId,
                               !.res = "Unauthorized"]
    /\ UNCHANGED <<objs, timers, positions, monitoringIntervals, tasks, now, requested, call,
                   config>>

\* /positions: the active positions, for authorized senders.
positionsCommand(userId) ==
    /\ ev' = IF isAuthorized(userId)
             THEN [NoEv EXCEPT !.op = "positions", !.kind = "command", !.user = userId]
             ELSE [NoEv EXCEPT !.op = "unauthorized", !.kind = "command", !.user = userId,
                               !.res = "Unauthorized"]
    /\ UNCHANGED <<objs, timers, positions, monitoringIntervals, tasks, now, requested, call,
                   config>>

\* A message '/sell <tokenMint>': no bot.onText pattern matches it and the message
\* handler returns at `if (text.startsWith('/')) return;`.
sellCommand(userId, tokenMint) ==
    /\ ev' = [NoEv EXCEPT !.op = "sellCommand", !.kind = "command", !.user = userId,
                          !.mint = tokenMint, !.res = "ignored"]
    /\ UNCHANGED <<objs, timers, positions, monitoringIntervals, tasks, now, requested, call,
                   config>>

\* A message that is a token address: for authorized senders the analysis
\* (validateToken, getTokenMetadata, analyzeToken) and its report, with buy buttons iff
\* the validation passed.  The handler touches no state of the monitor.
messageAddress(userId, tokenMint, outcome) ==
    /\ ev' = IF isAuthorized(userId)
             THEN [NoEv EXCEPT !.op = "analysis", !.kind = "message", !.user = userId,
                               !.mint = tokenMint, !.res = outcome]
             ELSE [NoEv EXCEPT !.op = "unauthorized", !.kind = "message", !.user = userId,
                               !.mint = tokenMint, !.res = "Unauthorized"]
    /\ UNCHANGED <<objs, timers, positions, monitoringIntervals, tasks, now, requested, call,
                   config>>

\* What the analysis handler answers.
AnalysisOutcomes == {"buttons", "trading disabled", "Analysis failed"}

NextBot ==
    \/ \E u \in UserIds : infoCommand(u)
    \/ \E u \in UserIds : walletCommand(u)
    \/ \E u \in UserIds : positionsCommand(u)
    \/ \E u \in UserIds, m \in Mints : sellCommand(u, m)
    \/ \E u \in UserIds, m \in Mints, o \in AnalysisOutcomes : messageAddress(u, m, o)
    \/ \E u \in UserIds, m \in Mints, a \in AmountStrs : callbackQuery(u, m, a)
    \/ \E i \in 1..MaxTasks, ok \in BOOLEAN : buySendDone(i, ok)
    \/ \E i \in 1..MaxTasks, ok \in BOOLEAN : buyTokenDone(i, ok)
    \/ \E i \in 1..MaxTasks : buyMetadataDone(i)
    \/ \E i \in 1..MaxTasks, e \in EntryPrices : buyMarketDataDone(i, e)

BotSpec == InitBot /\ [][NextBot]_vars

\* A buy handler suspended in getTokenMetadata or getMarketData is eventually resumed
\* (both calls settle: they catch their own errors).
FairnessBot ==
    /\ \A i \in 1..MaxTasks : WF_vars(buyMetadataDone(i))
    /\ \A i \in 1..MaxTasks : WF_vars(\E e \in EntryPrices : buyMarketDataDone(i, e))

FairBotSpec == BotSpec /\ FairnessBot

----------------------------------------------------------------------------
\* One evaluation of PositionMonitor.getCurrentPrice followed request by request:
\* what each of the two feeds would answer is fixed when the evaluation starts.
InitPrice ==
    /\ InitMonitor
    /\ config = Configured
    /\ \E primary \in FeedOutcomes, fallback \in FeedOutcomes :
          call = [fn |-> "getCurrentPrice", pc |-> "primary", primary |-> primary,
                  fallback |-> fallback, consulted |-> FALSE, result |-> 0]

\* Resumed from the await of the primary axios.get: return its price, or enter the
\* catch and await the fallback axios.get.
priceAfterPrimary ==
    /\ call.fn = "getCurrentPrice" /\ call.pc = "primary"
    /\ call' = IF primaryThrows(call.primary)
               THEN [call EXCEPT !.pc = "fallback", !.consulted = TRUE]
               ELSE [call EXCEPT !.pc = "done", !.result = primaryPrice(call.primary)]
    /\ UNCHANGED <<monitorVars, config>>

\* Resumed from the await of the fallback axios.get.
priceAfterFallback ==
    /\ call.fn = "getCurrentPrice" /\ call.pc = "fallback"
    /\ call' = [call EXCEPT !.pc = "done", !.result = fallbackPrice(call.fallback)]
    /\ UNCHANGED <<monitorVars, config>>

NextPrice == priceAfterPrimary \/ priceAfterFallback

PriceSpec == InitPrice /\ [][NextPrice]_vars

----------------------------------------------------------------------------
\* TokenValidator.validateToken followed await by await.  What each upstream request
\* would answer is fixed when the evaluation starts.  The reasons list and
\* hasLiquidityLock (constant false) are read by no control flow and are left out.

\* Configuration defaults.
minLiquidity == 1000
minMarketCap == 5000
maxRiskScore == 7

Liquidities == {0, 999, 1000, 3000}
MarketCaps == {0, 4999, 5000, 15000}
HolderCounts == {9, 10}
TopHolderPercents == {50, 51}

\* getAsset request of getTokenMetadata.
MetadataOutcomes == {[st |-> "throw"], [st |-> "ok"]}

\* DEX Screener request of getMarketData: a rejection, an empty pair list, or the
\* most liquid pair.
MarketOutcomes ==
    {[st |-> "throw", liquidity |-> 0, marketCap |-> 0],
     [st |-> "nodata", liquidity |-> 0, marketCap |-> 0]}
        \cup {[st |-> "ok", liquidity |-> l, marketCap |-> c] :
                 l \in Liquidities, c \in MarketCaps}

\* connection.getParsedAccountInfo(new PublicKey(tokenMint)): a rejection (or an
\* invalid key), no parsed account data, or the parsed mint with its authorities
\* (TRUE = the authority is not null).
MintOutcomes ==
    {[st |-> "throw", mintAuthority |-> FALSE, freezeAuthority |-> FALSE],
     [st |-> "unparsed", mintAuthority |-> FALSE, freezeAuthority |-> FALSE]}
        \cup {[st |-> "parsed", mintAuthority |-> m, freezeAuthority |-> f] :
                 m \in BOOLEAN, f \in BOOLEAN}

\* getTokenLargestAccounts request of getHolderDistribution: a rejection, no accounts,
\* or accounts.length with the percentage line 376 computes for the first account.
HolderOutcomes ==
    {[st |-> "throw", holderCount |-> 0, topHolderPercent |-> 0],
     [st |-> "nodata", holderCount |-> 0, topHolderPercent |-> 0]}
        \cup {[st |-> "ok", holderCount |-> n, topHolderPercent |-> t] :
                 n \in HolderCounts, t \in TopHolderPercents}

\* getMarketData catches its own errors: zeros unless a pair was returned.
getMarketData(o) ==
    IF o.st = "ok" THEN [liquidity |-> o.liquidity, marketCap |-> o.marketCap]
    ELSE [liquidity |-> 0, marketCap |-> 0]

\* getHolderDistribution catches its own errors: zeros unless accounts were returned.
getHolderDistribution(o) ==
    IF o.st = "ok" THEN [holderCount |-> o.holderCount, topHolderPercent |-> o.topHolderPercent]
    ELSE [holderCount |-> 0, topHolderPercent |-> 0]

\* canMint / canFreeze: false unless the account data is parsed.
mintFlags(o) ==
    [canMint |-> o.st = "parsed" /\ o.mintAuthority,
     canFreeze |-> o.st = "parsed" /\ o.freezeAuthority]

\* The four penalties added before the holder request.
riskBeforeHolders(flags, marketData) ==
    (IF flags.canMint THEN 3 ELSE 0)
    + (IF flags.canFreeze THEN 2 ELSE 0)
    + (IF marketData.liquidity < minLiquidity THEN 2 ELSE 0)
    + (IF marketData.marketCap < minMarketCap THEN 1 ELSE 0)

\* Variant: the concentration test is >= 50.
riskOfHoldersInclusive(holders) ==
    (IF holders.topHolderPercent >= 50 THEN 2 ELSE 0)
    + (IF holders.holderCount < 10 THEN 1 ELSE 0)

\* The two penalties added after the holder request.
riskOfHolders(holders) ==
    (IF holders.topHolderPercent > 50 THEN 2 ELSE 0)
    + (IF holders.holderCount < 10 THEN 1 ELSE 0)

\* Variant: the market cap is not tested.
isValidNoMarketCap(riskScore, marketData) ==
    riskScore <= maxRiskScore /\ marketData.liquidity >= minLiquidity

isValid(riskScore, marketData) ==
    /\ riskScore <= maxRiskScore
    /\ marketData.liquidity >= minLiquidity
    /\ marketData.marketCap >= minMarketCap

\* The record returned at the end of the try block.
validationResult(riskScore, marketData, flags, holders) ==
    [isValid |-> isValid(riskScore, marketData), riskScore |-> riskScore,
     liquidity |-> marketData.liquidity, marketCap |-> marketData.marketCap,
     holderCount |-> holders.holderCount, topHolderPercent |-> holders.topHolderPercent,
     canMint |-> flags.canMint, canFreeze |-> flags.canFreeze, failed |-> FALSE]

\* The record returned by the catch block (failed = its reasons are
\* ['Failed to validate token']).
validationFailure ==
    [isValid |-> FALSE, riskScore |-> 10, liquidity |-> 0, marketCap |-> 0,
     holderCount |-> 0, topHolderPercent |-> 0, canMint |-> TRUE, canFreeze |-> TRUE,
     failed |-> TRUE]

\* validateToken as a function of what its upstream requests answer (the metadata it
\* fetches first is not used).
validateToken(market, mint, holders) ==
    IF mint.st = "throw" THEN validationFailure
    ELSE validationResult(riskBeforeHolders(mintFlags(mint), getMarketData(market))
                              + riskOfHolders(getHolderDistribution(holders)),
                          getMarketData(market), mintFlags(mint),
                          getHolderDistribution(holders))

InitValidator ==
    /\ InitMonitor
    /\ config = Configured
    /\ \E md \in MetadataOutcomes, mk \in MarketOutcomes, mi \in MintOutcomes,
          ho \in HolderOutcomes :
          call = [fn |-> "validateToken", pc |-> "metadata", metadata |-> md,
                  market |-> mk, mint |-> mi, holders |-> ho, riskScore |-> 0,
                  result |-> validationFailure]

\* Resumed from `await this.getTokenMetadata(tokenMint)`, which catches its own errors.
validateAfterMetadata ==
    /\ call.fn = "validateToken" /\ call.pc = "metadata"
    /\ call' = [call EXCEPT !.pc = "market"]
    /\ UNCHANGED <<monitorVars, config>>

\* Resumed from `await this.getMarketData(tokenMint)`, which catches its own errors.
validateAfterMarketData ==
    /\ call.fn = "validateToken" /\ call.pc = "market"
    /\ call' = [call EXCEPT !.pc = "mint"]
    /\ UNCHANGED <<monitorVars, config>>

\* Resumed from `await this.connection.getParsedAccountInfo(...)`: a rejection goes to
\* the catch block; otherwise the first four penalties are added and the holder
\* request is awaited.
validateAfterMintInfo ==
    /\ call.fn = "validateToken" /\ call.pc = "mint"
    /\ call' = IF call.mint.st = "throw"
               THEN [call EXCEPT !.pc = "done", !.result = validationFailure]
               ELSE [call EXCEPT !.pc = "holders",
                                 !.riskScore = riskBeforeHolders(mintFlags(call.mint),
                                                                 getMarketData(call.market))]
    /\ UNCHANGED <<monitorVars, config>>

\* Resumed from `await this.getHolderDistribution(tokenMint)`, which catches its own
\* errors: the last two penalties, isValid, and the returned record.
validateAfterHolders ==
    /\ call.fn = "validateToken" /\ call.pc = "holders"
    /\ LET holders == getHolderDistribution(call.holders) IN
       call' = [call EXCEPT !.pc = "done",
                            !.riskScore = call.riskScore + riskOfHolders(holders),
                            !.result = validationResult(call.riskScore + riskOfHolders(holders),
                                                        getMarketData(call.market),
                                                        mintFlags(call.mint), holders)]
    /\ UNCHANGED <<monitorVars, config>>

NextValidator ==
    \/ validateAfterMetadata
    \/ validateAfterMarketData
    \/ validateAfterMintInfo
    \/ validateAfterHolders

ValidatorSpec == InitValidator /\ [][NextValidator]_vars

----------------------------------------------------------------------------
\* AIAnalysisService.analyzeToken: one chat-completion request, then the
\* recommendation and the confidence.  A response text is a sequence of words joined
\* by single blanks; summary and keyPoints are read by no control flow.

MaxWords == 2
Words == {"STRONG", "Buy", "buy", "avoid", "risky"}
Texts == UNION {[1..n -> Words] : n \in 0..MaxWords}

\* String.toLowerCase, word by word.
toLowerCase(text) ==
    [i \in 1..Len(text) |->
        CASE text[i] = "STRONG" -> "strong"
          [] text[i] = "Buy" -> "buy"
          [] OTHER -> text[i]]

\* String.includes for a phrase of whole words.
includes(text, phrase) ==
    \E i \in 1..Len(text) :
        /\ i + Len(phrase) - 1 <= Len(text)
        /\ SubSeq(text, i, i + Len(phrase) - 1) = phrase

\* Every record validateToken can return.
Validations ==
    {validateToken(mk, mi, ho) :
        mk \in MarketOutcomes, mi \in MintOutcomes, ho \in HolderOutcomes}

\* The chat-completion request: a rejection, or the text of the first choice.
CompletionOutcomes ==
    {[st |-> "throw", text |-> <<>>]} \cup {[st |-> "ok", text |-> t] : t \in Texts}

extractRecommendation(analysis, validation) ==
    LET lowerAnalysis == toLowerCase(analysis) IN
    IF \/ includes(lowerAnalysis, <<"strong", "buy">>)
       \/ (includes(lowerAnalysis, <<"buy">>) /\ validation.riskScore <= 3)
    THEN "BUY"
    ELSE IF includes(lowerAnalysis, <<"avoid">>) \/ validation.riskScore >= 7 THEN "AVOID"
    ELSE IF includes(lowerAnalysis, <<"buy">>) /\ validation.riskScore <= 5 THEN "BUY"
    ELSE "HOLD"

Min(a, b) == IF a < b THEN a ELSE b
Max(a, b) == IF a > b THEN a ELSE b

\* Variant: Math.min / Math.max are missing.
calculateConfidenceUnclamped(validation) ==
    100 - (validation.riskScore * 10)
        + (IF validation.liquidity >= minLiquidity * 3 THEN 10 ELSE 0)
        + (IF validation.marketCap >= minMarketCap * 3 THEN 10 ELSE 0)
        + (IF ~validation.canMint /\ ~validation.canFreeze THEN 15 ELSE 0)

calculateConfidence(validation) ==
    LET baseConfidence == 100 - (validation.riskScore * 10)
        adjustment ==
            (IF validation.liquidity >= minLiquidity * 3 THEN 10 ELSE 0)
            + (IF validation.marketCap >= minMarketCap * 3 THEN 10 ELSE 0)
            + (IF ~validation.canMint /\ ~validation.canFreeze THEN 15 ELSE 0)
    IN Min(100, Max(0, baseConfidence + adjustment))

\* fallbackAnalysis: the recommendation by risk tier.
fallbackRecommendation(validation) ==
    IF validation.riskScore >= 7 THEN "AVOID"
    ELSE IF validation.riskScore <= 3 THEN "BUY"
    ELSE "HOLD"

InitAdapter ==
    /\ InitMonitor
    /\ config = Configured
    /\ \E v \in Validations, c \in CompletionOutcomes :
          call = [fn |-> "analyzeToken", pc |-> "completion", validation |-> v,
                  completion |-> c, recommendation |-> "", confidence |-> 0]

\* Resumed from `await this.client.chat.completions.create(...)`: the parsed answer,
\* or fallbackAnalysis from the catch.
analyzeAfterCompletion ==
    /\ call.fn = "analyzeToken" /\ call.pc = "completion"
    /\ call' = [call EXCEPT
                  !.pc = "done",
                  !.recommendation =
                      IF call.completion.st = "ok"
                      THEN extractRecommendation(call.completion.text, call.validation)
                      ELSE fallbackRecommendation(call.validation),
                  !.confidence = calculateConfidence(call.validation)]
    /\ UNCHANGED <<monitorVars, config>>

NextAdapter == analyzeAfterCompletion

AdapterSpec == InitAdapter /\ [][NextAdapter]_vars

----------------------------------------------------------------------------
\* PumpPortalService.buyToken / sellToken followed await by await.  What the swap
\* API, the RPC node and the chain would answer is fixed when the call starts.

TradeFns == {"buyToken", "sellToken"}

\* axios.post to the swap API: a rejection, bytes that do not deserialize, or a
\* serialized transaction.
RequestOutcomes == {"throw", "garbage", "tx"}

\* connection.sendTransaction (skipPreflight, so nothing is simulated first): a
\* rejection, or the signature of the submitted transaction.
SendOutcomes == {"throw", "sent"}

\* What becomes of a submitted transaction, and what confirmTransaction does about
\* it: it resolves once the signature has a status (with value.err set when the
\* transaction failed on chain), and it rejects when it gives up waiting, which can
\* happen whatever became of the transaction.
ChainOutcomes ==
    {[chain |-> "landed", confirm |-> "resolve"], [chain |-> "landed", confirm |-> "reject"],
     [chain |-> "failed", confirm |-> "resolve"], [chain |-> "failed", confirm |-> "reject"],
     [chain |-> "dropped", confirm |-> "reject"]}

\* The stages in the order of the source text.
TradeStages == <<"request", "deserialize", "sign", "submit", "confirm">>

\* throw new Error(`Failed to buy token: ...`) / (`Failed to sell token: ...`)
wrappedError(fn, stage) ==
    [st |-> "thrown",
     message |-> IF fn = "buyToken" THEN "Failed to buy token" ELSE "Failed to sell token",
     cause |-> stage]

InitTrade ==
    /\ InitMonitor
    /\ config = Configured
    /\ \E fn \in TradeFns, rq \in RequestOutcomes, sg \in BOOLEAN, sd \in SendOutcomes,
          ch \in ChainOutcomes :
          call = [fn |-> fn, pc |-> "request", request |-> rq, signs |-> sg, send |-> sd,
                  chain |-> ch, stages |-> <<>>, submitted |-> FALSE,
                  result |-> [st |-> "pending", message |-> "", cause |-> ""]]

\* Resumed from the await of axios.post: a rejection goes to the catch; otherwise
\* the bytes are deserialized and signed (either can throw) and sendTransaction is
\* called and awaited.
tradeAfterRequest ==
    /\ call.fn \in TradeFns /\ call.pc = "request"
    /\ call' =
         IF call.request = "throw"
         THEN [call EXCEPT !.pc = "done", !.stages = <<"request">>,
                           !.result = wrappedError(call.fn, "request")]
         ELSE IF call.request = "garbage"
         THEN [call EXCEPT !.pc = "done", !.stages = <<"request", "deserialize">>,
                           !.result = wrappedError(call.fn, "deserialize")]
         ELSE IF ~call.signs
         THEN [call EXCEPT !.pc = "done", !.stages = <<"request", "deserialize", "sign">>,
                           !.result = wrappedError(call.fn, "sign")]
         ELSE [call EXCEPT !.pc = "send",
                           !.stages = <<"request", "deserialize", "sign", "submit">>]
    /\ UNCHANGED <<monitorVars, config>>

\* Resumed from the await of sendTransaction: a rejection goes to the catch;
\* otherwise the transaction is with the network and confirmTransaction is awaited.
tradeAfterSend ==
    /\ call.fn \in TradeFns /\ call.pc = "send"
    /\ call' =
         IF call.send = "throw"
         THEN [call EXCEPT !.pc = "done", !.result = wrappedError(call.fn, "submit")]
         ELSE [call EXCEPT !.pc = "confirm", !.submitted = TRUE,
                           !.stages = Append(call.stages, "confirm")]
    /\ UNCHANGED <<monitorVars, config>>

\* Resumed from the await of confirmTransaction: a rejection goes to the catch; a
\* resolution, whose value is not looked at, is followed by `return signature`.
tradeAfterConfirm ==
    /\ call.fn \in TradeFns /\ call.pc = "confirm"
    /\ call' =
         IF call.chain.confirm = "reject"
         THEN [call EXCEPT !.pc = "done", !.result = wrappedError(call.fn, "confirm")]
         ELSE [call EXCEPT !.pc = "done",
                           !.result = [st |-> "signature", message |-> "", cause |-> ""]]
    /\ UNCHANGED <<monitorVars, config>>

NextTrade ==
    \/ tradeAfterRequest
    \/ tradeAfterSend
    \/ tradeAfterConfirm

TradeSpec == InitTrade /\ [][NextTrade]_vars

----------------------------------------------------------------------------
\* Abbreviations used by the properties.
RecordedInactive(m) == positions[m] # 0 /\ ~objs[positions[m]].active
Held(k) == now - objs[k].entryTime

\* The exit conditions of the record checked by the last step, by cross-multiplication.
EvEntry == objs[ev.pos].entryPrice
EvTakeProfit == EvEntry = 0 \/ (ev.price - EvEntry) * 100 >= takeProfitPercent * EvEntry
EvStopLoss == EvEntry # 0 /\ (ev.price - EvEntry) * 100 <= stopLossPercent * EvEntry
EvMaxHold == Held(ev.pos) >= maxHoldTime

\* C1 (as stated): once the position recorded for a mint is inactive, the position
\* recorded for that mint is never active again.
C1_NoResurrectionPerMint ==
    [][\A m \in Mints : RecordedInactive(m) => RecordedInactive(m)']_vars

\* C1 (amended): a Position record that is inactive never becomes active again, and
\* the position recorded for a mint goes from inactive to active only by an
\* addPosition that replaces the record.
C1_NoResurrectionPerRecord ==
    [][/\ \A k \in 1..Len(objs) : ~objs[k].active => ~objs'[k].active
       /\ \A m \in Mints :
            (RecordedInactive(m) /\ ~RecordedInactive(m)')
                => (ev'.op = "addPosition" /\ ev'.mint = m /\ positions'[m] # positions[m])]_vars

C1_Witness ==
    \E k \in 1..Len(objs) :
        /\ ~objs[k].active
        /\ positions[objs[k].tokenMint] # k
        /\ hasActivePosition(objs[k].tokenMint)

\* C2 (as stated): after sellToken failed inside exitPosition the position is inactive.
C2_FailedExitCloses == ev.op = "sellFail" => ~objs[ev.pos].active

\* C2 (amended): a failed sell closes nothing: when sellToken fails inside
\* exitPosition every Position record keeps its fields, active included; a
\* successful sell is what sets active=false.
C2_FailedExitKeepsState ==
    [][/\ ev'.op = "sellFail" => objs' = objs
       /\ ev'.op = "sellOk" => ~objs'[ev'.pos].active]_vars

C2_Witness == ev.op = "sellFail" /\ objs[ev.pos].active

\* C3: over the lifetime of a position at most one sellToken request is issued for it
\* (no request is issued for a record that already had one).
C3_OneShotExit == [][ev'.sold # 0 => ~requested[ev'.sold]]_vars

\* C4 (as stated): for every mint a scheduled polling task exists iff the recorded
\* position is active.
C4_TaskIffActive ==
    \A m \in Mints :
        (\E k \in 1..Len(timers) : timers[k] /\ objs[k].tokenMint = m)
            <=> hasActivePosition(m)

\* C4 (amended): for every mint, a polling task registered in monitoringIntervals is
\* the still-scheduled task of the recorded position, and that position is active.
C4_RegisteredTaskOnlyIfActive ==
    \A m \in Mints :
        monitoringIntervals[m] # 0 =>
            /\ timers[monitoringIntervals[m]]
            /\ monitoringIntervals[m] = positions[m]
            /\ hasActivePosition(m)

C4_Witness ==
    /\ ev.op = "sellOk"
    /\ monitoringIntervals[ev.mint] = 0
    /\ \E m \in Mints : monitoringIntervals[m] # 0

\* C5: when a check calls exitPosition the reason is take-profit if the profit
\* reached the take-profit threshold, else stop-loss if it fell to the stop-loss
\* threshold, else max-hold-time.
C5_ReasonPriority ==
    (ev.op = "check" /\ ev.exit) =>
        ev.reason = IF EvTakeProfit THEN "takeProfit"
                    ELSE IF EvStopLoss THEN "stopLoss"
                    ELSE "maxHold"

C5_Witness == ev.op = "check" /\ ev.exit /\ EvTakeProfit /\ EvMaxHold /\ EvEntry # 0

\* C6: a check resumed with a nonzero price calls exitPosition iff take-profit,
\* stop-loss or max-hold holds; entry 1.00 with price 1.25 exits as take-profit and
\* entry 1.00 with price 0.85 exits as stop-loss.
C6_ExitIffCondition ==
    (ev.op = "check" /\ ev.price # 0) =>
        /\ ev.exit <=> (EvTakeProfit \/ EvStopLoss \/ EvMaxHold)
        /\ (EvEntry = 100 /\ ev.price = 125) => (ev.exit /\ ev.reason = "takeProfit")
        /\ (EvEntry = 100 /\ ev.price = 85) => (ev.exit /\ ev.reason = "stopLoss")

C6_Witness ==
    /\ ev.op = "check" /\ ev.price = 100 /\ EvEntry = 100
    /\ EvMaxHold /\ ev.exit /\ ev.reason = "maxHold"

\* C7: a check resumed with price 0 evaluates no exit: no sell is requested and no
\* Position record, timer or registered task changes, whatever the hold time.
C7_ZeroPriceSkips ==
    [][(ev'.op = "check" /\ ev'.price = 0) =>
          /\ ~ev'.exit /\ ev'.sold = 0
          /\ UNCHANGED <<objs, timers, positions, monitoringIntervals, requested>>]_vars

C7_Witness ==
    /\ ev.op = "check" /\ ev.price = 0
    /\ EvMaxHold
    /\ hasActivePosition(ev.mint) /\ positions[ev.mint] = ev.pos
    /\ timers[ev.pos] /\ ~requested[ev.pos]

\* C8: an active, recorded position whose timer stays scheduled and whose hold time
\* reached maxHoldTime eventually has a sell requested.
C8_TimeSellEventually ==
    \A k \in 1..MaxPositions :
        (/\ k <= Len(objs) /\ objs[k].active /\ timers[k]
         /\ positions[objs[k].tokenMint] = k
         /\ Held(k) >= maxHoldTime)
          ~> (/\ k <= Len(objs)
              /\ (requested[k] \/ ~timers[k] \/ positions[objs[k].tokenMint] # k))

\* C9: manualExit on a mint without an active position throws 'No active position
\* for this token' and changes nothing.
C9_ManualExitRejects ==
    [][(ev'.kind = "manual" /\ ev'.op \in {"manualReject", "manualReturn", "manualExit"}
            /\ ~hasActivePosition(ev'.mint)) =>
          /\ ev'.op = "manualReject"
          /\ ev'.res = "thrown: No active position for this token"
          /\ ev'.sold = 0
          /\ UNCHANGED <<objs, timers, positions, monitoringIntervals, tasks, requested>>]_vars

C9_Witness == ev.op = "manualReject" /\ RecordedInactive(ev.mint)

\* C10: a sell is requested for 100% and only for an active record; when it succeeds
\* the record sold becomes inactive and the mint's registered polling task is
\* cancelled and removed; the exit then returns the reason it was called with and
\* the signature of that sell.
C10_SuccessfulExit ==
    [][/\ ev'.sold # 0 => (ev'.pct = 100 /\ objs[ev'.sold].active)
       /\ ev'.op = "sellOk" =>
            /\ requested[ev'.pos]
            /\ ~objs'[ev'.pos].active
            /\ monitoringIntervals'[ev'.mint] = 0
            /\ monitoringIntervals[ev'.mint] # 0 => ~timers'[monitoringIntervals[ev'.mint]]
       /\ ev'.op = "exitReturn" =>
            /\ ev'.sig = ev'.pos /\ ~objs[ev'.pos].active
            /\ \E i \in 1..Len(tasks) :
                 /\ tasks[i].pc = "final" /\ tasks[i].pos = ev'.pos
                 /\ tasks[i].reason = ev'.reason
            /\ ev'.reason \in {"takeProfit", "stopLoss", "maxHold", "manual"}]_vars

C10_Witness ==
    /\ ev.op = "exitReturn" /\ ev.kind = "check" /\ ev.reason = "takeProfit"
    /\ ~objs[ev.pos].active /\ monitoringIntervals[ev.mint] = 0 /\ ~timers[ev.pos]

\* C11: when sellToken fails inside exitPosition the exit yields no signature; an
\* exit started by the polling timer swallows the error (the poll cycle ends without
\* throwing), an exit started by manualExit throws it to the caller.
C11_SellFailurePropagates ==
    ev.op = "sellFail" =>
        /\ ev.sig = 0
        /\ ev.kind \in {"check", "manual"}
        /\ ev.kind = "check" => ev.res = "swallowed: Failed to sell token"
        /\ ev.kind = "manual" => ev.res = "thrown: Failed to sell token"

C11_Witness ==
    /\ ev.op = "sellFail" /\ ev.kind = "manual"
    /\ ev.res = "thrown: Failed to sell token" /\ objs[ev.pos].active

\* C12 (as stated): in the state right after stopAll no interval timer created by
\* startMonitoring is still scheduled.
C12_StopAllCancelsAll ==
    ev.op = "stopAll" => \A k \in 1..Len(timers) : ~timers[k]

\* C13: stopAll leaves the Position index and every Position object as they were
\* (active positions stay active) and requests no sell.
C13_StopAllFrame ==
    [][ev'.op = "stopAll" =>
          /\ positions' = positions
          /\ objs' = objs
          /\ requested' = requested
          /\ tasks' = tasks
          /\ ev'.sold = 0]_vars

C13_Witness ==
    /\ ev.op = "stopAll"
    /\ \E m \in Mints : hasActivePosition(m) /\ ~timers[positions[m]]

\* C14 (as stated): buyToken is never called for a mint whose recorded position is
\* open, and no open position is ever displaced from the index by a later buy: every
\* active Position object is the one recorded for its mint.
C14_NoSecondBuyWhileOpen ==
    /\ ev.op = "buyToken" => ~hasActivePosition(ev.mint)
    /\ \A k \in 1..Len(objs) : objs[k].active => positions[objs[k].tokenMint] = k

\* C15 (as stated): getCurrentPrice asks the fallback feed whenever the primary feed
\* fails or has no data for the mint, and it returns 0 only when neither feed gave a
\* non-zero price.
C15_FallbackWheneverNoData ==
    (call.fn = "getCurrentPrice" /\ call.pc = "done") =>
        /\ call.primary.st # "ok" => call.consulted
        /\ call.result = 0 => /\ primaryPrice(call.primary) = 0
                              /\ fallbackPrice(call.fallback) = 0

\* The evaluation of validateToken has returned.
ValidateDone == call.fn = "validateToken" /\ call.pc = "done"

\* C16 (as stated): the riskScore validateToken returns is within 0..10, on the
\* scoring path and on the failure path.
C16_RiskScoreInRange ==
    ValidateDone => call.result.riskScore \in 0..10

\* C17: on the non-failure path the returned riskScore is the sum of +3 (mint
\* authority active), +2 (freeze authority active), +2 (liquidity < minLiquidity),
\* +1 (marketCap < minMarketCap), +2 (topHolderPercent > 50), +1 (holderCount < 10).
C17_RiskScoreIsPenaltySum ==
    (ValidateDone /\ ~call.result.failed) =>
        LET r == call.result IN
        r.riskScore = (IF r.canMint THEN 3 ELSE 0) + (IF r.canFreeze THEN 2 ELSE 0)
                        + (IF r.liquidity < 1000 THEN 2 ELSE 0)
                        + (IF r.marketCap < 5000 THEN 1 ELSE 0)
                        + (IF r.topHolderPercent > 50 THEN 2 ELSE 0)
                        + (IF r.holderCount < 10 THEN 1 ELSE 0)

\* Mint active + freeze active + low liquidity and nothing else gives 7.
C17_Witness ==
    /\ ValidateDone /\ ~call.result.failed
    /\ call.result.canMint /\ call.result.canFreeze /\ call.result.liquidity = 999
    /\ call.result.marketCap = 5000 /\ call.result.topHolderPercent = 50
    /\ call.result.holderCount = 10 /\ call.result.riskScore = 7

\* C18: the returned isValid is true exactly when riskScore <= maxRiskScore and
\* liquidity >= minLiquidity and marketCap >= minMarketCap.
C18_IsValidIff ==
    ValidateDone =>
        (call.result.isValid <=>
            /\ call.result.riskScore <= 7
            /\ call.result.liquidity >= 1000
            /\ call.result.marketCap >= 5000)

\* A token above both floors that is rejected for its risk score alone.
C18_Witness ==
    /\ ValidateDone /\ ~call.result.failed /\ ~call.result.isValid
    /\ call.result.riskScore = 8
    /\ call.result.liquidity >= 1000 /\ call.result.marketCap >= 5000

\* C19 (as stated): when any upstream request of validateToken fails, the returned
\* record is riskScore 10, canMint, canFreeze, not valid.
C19_FailClosed ==
    (/\ ValidateDone
     /\ \/ call.metadata.st = "throw" \/ call.market.st = "throw"
        \/ call.mint.st = "throw" \/ call.holders.st = "throw") =>
        /\ call.result.riskScore = 10
        /\ call.result.canMint /\ call.result.canFreeze
        /\ ~call.result.isValid

\* C20 (as stated): the recommendation is AVOID whenever validation.riskScore >= 7,
\* whatever the response text, and a response is never turned into BUY when the
\* riskScore exceeds 5.
C20_RiskGuardsRecommendation ==
    (call.fn = "analyzeToken" /\ call.pc = "done") =>
        /\ call.validation.riskScore >= 7 => call.recommendation = "AVOID"
        /\ (call.completion.st = "ok" /\ call.validation.riskScore > 5) =>
              call.recommendation # "BUY"

\* The evaluation of analyzeToken has returned.
AnalyzeDone == call.fn = "analyzeToken" /\ call.pc = "done"

\* C21: on the normal and on the fallback path the confidence is within 0..100 and is
\* 100 - riskScore*10, +10 if liquidity >= 3*minLiquidity, +10 if marketCap >=
\* 3*minMarketCap, +15 if neither authority is active, clamped to 0..100: a function
\* of the validation record alone.
C21_ConfidenceClamped ==
    AnalyzeDone =>
        LET v == call.validation
            raw == 100 - v.riskScore * 10
                     + (IF v.liquidity >= 3000 THEN 10 ELSE 0)
                     + (IF v.marketCap >= 15000 THEN 10 ELSE 0)
                     + (IF ~v.canMint /\ ~v.canFreeze THEN 15 ELSE 0)
        IN /\ call.confidence \in 0..100
           /\ call.confidence = IF raw < 0 THEN 0 ELSE IF raw > 100 THEN 100 ELSE raw

\* riskScore 0 with every bonus: 135 is capped at 100, with a model text present.
C21_Witness ==
    /\ AnalyzeDone /\ call.completion.st = "ok" /\ Len(call.completion.text) > 0
    /\ call.validation.riskScore = 0 /\ call.validation.liquidity >= 3000
    /\ call.validation.marketCap >= 15000 /\ call.confidence = 100

\* The transaction of the call is on chain and succeeded there.
TradeCompleted == call.submitted /\ call.chain.chain = "landed"

\* C22 (as stated): the stages run in the order request, deserialize, sign, submit,
\* confirm; a signature is returned only when every stage succeeded and the
\* transaction completed; a failing call throws one wrapped error, returns no
\* signature and has not completed a transaction.
C22_AllOrNothing ==
    (call.fn \in TradeFns /\ call.pc = "done") =>
        /\ call.stages = SubSeq(TradeStages, 1, Len(call.stages))
        /\ call.result.st \in {"signature", "thrown"}
        /\ call.result.st = "signature" =>
              (call.stages = TradeStages /\ TradeCompleted)
        /\ call.result.st = "thrown" =>
              /\ call.result.message =
                    (IF call.fn = "buyToken" THEN "Failed to buy token"
                     ELSE "Failed to sell token")
              /\ ~TradeCompleted

\* C26 (as stated): for every mint at most one checkPosition invocation is suspended
\* (in its price fetch or in its sell) at any time.
C26_ChecksSequential ==
    \A m \in Mints :
        Cardinality({i \in 1..Len(tasks) :
                        tasks[i].kind = "check" /\ tasks[i].mint = m}) <= 1

\* The steps of an exit: the check that calls exitPosition, manualExit, and the
\* resumptions of exitPosition.
ExitOps == {"check", "manualExit", "manualReturn", "sellOk", "sellFail", "exitReturn"}

\* C28: a step of an exit of one mint changes no Position object of another mint,
\* no index entry of another mint, and neither cancels nor creates a timer of
\* another mint.
C28_ExitsIndependent ==
    [][ev'.op \in ExitOps =>
          /\ Len(objs') = Len(objs) /\ Len(timers') = Len(timers)
          /\ \A k \in 1..Len(objs) :
                objs[k].tokenMint # ev'.mint =>
                    (objs'[k] = objs[k] /\ timers'[k] = timers[k])
          /\ \A m \in Mints \ {ev'.mint} :
                /\ positions'[m] = positions[m]
                /\ monitoringIntervals'[m] = monitoringIntervals[m]]_vars

\* A sell of one mint succeeded while another mint is open and polled.
C28_Witness ==
    /\ ev.op = "sellOk" /\ ~objs[ev.pos].active /\ ~timers[ev.pos]
    /\ \E m \in Mints \ {ev.mint} :
          /\ hasActivePosition(m)
          /\ monitoringIntervals[m] = positions[m] /\ timers[positions[m]]

\* C29 (as stated): when sellToken fails inside exitPosition nothing changes and the
\* position it was called for has active=true, with its entry and timer in place.
C29_FailedSellLeavesOpen ==
    [][ev'.op = "sellFail" =>
          /\ UNCHANGED <<objs, timers, positions, monitoringIntervals>>
          /\ objs'[ev'.pos].active]_vars

\* C30: whenever exitPosition invokes sellToken, the object sold is the position
\* recorded for the mint and it is active; a poll cycle that resumes from its price
\* fetch with an exit condition after the position was closed invokes no sell.
C30_SellOnlyActive ==
    /\ ev.sold # 0 => (ev.sold = positions[ev.mint] /\ objs[ev.sold].active)
    /\ (ev.op = "check" /\ ev.exit /\ ~hasActivePosition(ev.mint)) => ev.sold = 0

\* A poll cycle resumed with an exit condition after its position was closed.
C30_Witness ==
    /\ ev.op = "check" /\ ev.exit /\ ev.sold = 0
    /\ positions[ev.mint] = ev.pos /\ ~objs[ev.pos].active /\ requested[ev.pos]

\* The sender is on a non-empty allow-list / is kept out by it.
Listed(userId) == ToString(userId) \in config.authorizedUsers
Unlisted(userId) == config.authorizedUsers # {} /\ ~Listed(userId)

\* C23 (as stated): a '/sell <address>' message from an authorized user for a mint
\* with an active position invokes manualExit, which requests a sell of that position.
C23_SellCommandExits ==
    (ev.op = "sellCommand" /\ isAuthorized(ev.user) /\ hasActivePosition(ev.mint))
        => (ev.sold # 0 /\ ev.sold = positions[ev.mint])

\* C24 (as stated): under every configuration, buyToken is never called with an
\* amount above maxPositionSize.
C24_PositionSizeLimit ==
    ev.op = "buyToken" => ev.amount <= config.maxPositionSize

\* The steps done on behalf of a chat user: analysis, disclosure, and the buy flow up
\* to addPosition.
ServedOps ==
    {"analysis", "wallet", "positions", "buyAccepted", "buyToken", "bought", "metadata",
     "buyAdd"}

\* C25: with a non-empty allow-list, nothing is analysed, disclosed, bought or
\* registered for a user who is not on it: every such request (message, /wallet,
\* /positions, buy button) is answered 'Unauthorized', changes nothing and starts no
\* buy, and every buy in flight belongs to a listed user.
C25_UnlistedUsersGetNothing ==
    [][/\ (ev'.op \in ServedOps /\ config.authorizedUsers # {}) => Listed(ev'.user)
       /\ \A i \in 1..Len(tasks') :
             (tasks'[i].kind = "buy" /\ config.authorizedUsers # {}) => Listed(tasks'[i].user)
       /\ \A u \in UserIds :
             (/\ Unlisted(u)
              /\ \/ walletCommand(u)
                 \/ positionsCommand(u)
                 \/ \E m \in Mints, o \in AnalysisOutcomes : messageAddress(u, m, o)
                 \/ \E m \in Mints, a \in AmountStrs : callbackQuery(u, m, a))
             => /\ ev'.op = "unauthorized" /\ ev'.res = "Unauthorized" /\ ev'.user = u
                /\ UNCHANGED <<objs, timers, positions, monitoringIntervals, tasks,
                               requested>>]_vars

\* An unlisted user pressed a buy button for a mint nobody holds and was refused.
C25_Witness ==
    /\ ev.op = "unauthorized" /\ ev.kind = "buy" /\ Unlisted(ev.user)
    /\ ~hasActivePosition(ev.mint)
    /\ ev.res = "Unauthorized"

\* C27: in the buy-button flow addPosition runs only in a handler that holds the
\* signature buyToken returned and registers that handler's mint; a failed buy
\* registers no position and starts no polling task; and every handler whose buyToken
\* succeeded goes on to addPosition for its mint.
C27_RegisteredIffBought ==
    /\ [][/\ (ev'.op = "buyAdd") =>
               (/\ ev'.res = "signature"
                /\ Len(objs') = Len(objs) + 1
                /\ objs'[Len(objs')].tokenMint = ev'.mint /\ objs'[Len(objs')].active
                /\ positions'[ev'.mint] = Len(objs') /\ timers'[Len(objs')])
          /\ (ev'.op = "buyFailed") =>
               (UNCHANGED <<objs, timers, positions, monitoringIntervals>>)
          /\ (ev'.kind = "buy" /\ ev'.op # "buyAdd") => (Len(objs') = Len(objs))]_vars
    /\ \A m \in Mints :
          (\E i \in 1..Len(tasks) :
              tasks[i].kind = "buy" /\ tasks[i].mint = m /\ tasks[i].reason = "signature")
            ~> (ev.op = "buyAdd" /\ ev.mint = m)

\* A buy was registered while another buy had failed before: one position, polled.
C27_Witness ==
    /\ ev.op = "buyAdd" /\ ev.res = "signature"
    /\ Len(objs) = 1 /\ positions[ev.mint] = 1 /\ timers[1] /\ objs[1].active

\* C31 (as stated): every position registered by the buy flow has entryPrice > 0, so
\* the profit percentage of every poll cycle that reaches the exit test is finite and
\* no sell is requested as take-profit over an entry price of 0.
C31_EntryPricePositive ==
    /\ \A k \in 1..Len(objs) : objs[k].entryPrice > 0
    /\ (ev.op = "check" /\ ~priceUnavailable(ev.price))
          => ~profitPercent(ev.price, EvEntry).inf
    /\ (ev.op = "check" /\ ev.sold # 0 /\ ev.reason = "takeProfit") => EvEntry > 0
====
